---------------------------- MODULE Spec2Model ----------------------------
(***************************************************************************)
(* dxf2gcode: the entity-to-G-code converter (dxf_to_gcode.py), the G-code *)
(* interpreter behind the simulation (simulate_gcode) and the /convert     *)
(* handler of the web front end (app.py).                                  *)
(*                                                                         *)
(* Numbers.  A Python float is modelled as an integer number of ticks,     *)
(* TicksPerMilli ticks to 0.001.  A numeric literal of the program text is *)
(* the integer the text denotes at its printed precision: thousandths for  *)
(* ':.3f' (X Y Z I J), tenths for ':.1f' (F), units for a bare integer     *)
(* ("X0", "S1000").  Formatting rounds ticks to the printed precision and  *)
(* float() turns a literal back into ticks, so printing is not the         *)
(* identity.  Angles of the drawing are whole degrees; angles of the       *)
(* interpreter are whole sampling steps, Turn steps to 2*pi.               *)
(***************************************************************************)
EXTENDS Integers, Sequences, FiniteSets, TLC

(***************************************************************************)
(* Bounds of the model.                                                    *)
(***************************************************************************)
TicksPerMilli == 3
MaxEntities == 2
MaxProgLen == 2
MaxRequests == 2

\* n thousandths as a float
Milli(n) == n * TicksPerMilli

(***************************************************************************)
(* Program constants.                                                      *)
(***************************************************************************)
DEFAULT_FEED_RATE_XY == Milli(300000)
DEFAULT_FEED_RATE_Z == Milli(100000)
DEFAULT_SAFE_Z == Milli(5000)
DEFAULT_CUT_Z == Milli(-300)
\* num_points = 21 samples per arc
num_points == 21
\* 2*pi and pi in sampling steps: a quarter turn is num_points - 1 steps
Turn == 4 * (num_points - 1)
Pi == Turn \div 2

(***************************************************************************)
(* Formatting and parsing of numbers.                                      *)
(***************************************************************************)
\* round v / q to the nearest integer
RoundDiv(v, q) == (2 * v + q) \div (2 * q)
\* f"{v:.3f}": the literal, in thousandths
Fmt3(v) == RoundDiv(v, TicksPerMilli)
\* f"{v:.1f}": the literal, in tenths
Fmt1(v) == RoundDiv(v, 100 * TicksPerMilli)

\* one word of a line after the mnemonic: letter k, literal v printed with d decimals
Tok(k, v, d) == [k |-> k, v |-> v, d |-> d]
\* float(part[1:])
ParseFloat(tok) ==
    CASE tok.d = 3 -> tok.v * TicksPerMilli
      [] tok.d = 1 -> tok.v * 100 * TicksPerMilli
      [] OTHER -> tok.v * 1000 * TicksPerMilli

\* one line of program text: mnemonic and the words after it
Line(cmd, toks) == [cmd |-> cmd, toks |-> toks]
WarningComment == "; WARNING: LWPOLYLINE bulge segment treated as straight line."

\* 'X' in line, 'Y' in line: substring tests on the whole line.  Of the texts the
\* converter writes, only the warning comment holds a 'Y' outside a Y word
\* ("LWPOLYLINE"), and none holds an 'X' outside an X word.
HasX(line) == \E i \in 1..Len(line.toks) : line.toks[i].k = "X"
HasY(line) == line.cmd = WarningComment \/ \E i \in 1..Len(line.toks) : line.toks[i].k = "Y"
HasTok(line, k) == \E i \in 1..Len(line.toks) : line.toks[i].k = k
\* the first word of letter k
TokOf(line, k) == line.toks[CHOOSE i \in 1..Len(line.toks) :
                      line.toks[i].k = k /\ \A j \in 1..(i-1) : line.toks[j].k # k]

(***************************************************************************)
(* Header and footer.                                                      *)
(***************************************************************************)
generate_gcode_header(safe_z) ==
    << Line("G21", <<>>), Line("G90", <<>>), Line("G17", <<>>),
       Line("M3", <<Tok("S", 1000, 0)>>),
       Line("G00", <<Tok("Z", Fmt3(safe_z), 3)>>) >>

generate_gcode_footer(safe_z) ==
    << Line("G00", <<Tok("Z", Fmt3(safe_z), 3)>>),
       Line("M5", <<>>),
       Line("G00", <<Tok("X", 0, 0), Tok("Y", 0, 0)>>),
       Line("M2", <<>>) >>

(***************************************************************************)
(* Entity converters.  current_pos is <<>> (None) or <<x, y, z>>.          *)
(***************************************************************************)
None == <<>>

\* math.isclose(a, b): relative tolerance 1e-9, far below one tick
isclose(a, b) == a = b

\* variant: the rapid is emitted whatever the tool position
AlwaysRapid(current_pos, x, y) == TRUE
\* "current_pos is None or not (isclose(x) and isclose(y))"
NeedsRapid(current_pos, x, y) ==
    current_pos = None \/ ~(isclose(current_pos[1], x) /\ isclose(current_pos[2], y))

RapidXY(x, y) == Line("G00", <<Tok("X", Fmt3(x), 3), Tok("Y", Fmt3(y), 3)>>)
Plunge(cut_z, feed_rate_z) == Line("G01", <<Tok("Z", Fmt3(cut_z), 3), Tok("F", Fmt1(feed_rate_z), 1)>>)
LinearXY(x, y, feed_rate_xy) ==
    Line("G01", <<Tok("X", Fmt3(x), 3), Tok("Y", Fmt3(y), 3), Tok("F", Fmt1(feed_rate_xy), 1)>>)
\* variant: the tool is lifted to the material surface, Z0, instead of safe_z
RetractToSurface(safe_z) == Line("G00", <<Tok("Z", Fmt3(0), 3)>>)
Retract(safe_z) == Line("G00", <<Tok("Z", Fmt3(safe_z), 3)>>)
ArcXY(arc_command, x, y, i_off, j_off, feed_rate_xy) ==
    Line(arc_command, <<Tok("X", Fmt3(x), 3), Tok("Y", Fmt3(y), 3),
                        Tok("I", Fmt3(i_off), 3), Tok("J", Fmt3(j_off), 3),
                        Tok("F", Fmt1(feed_rate_xy), 1)>>)

line_to_gcode(entity, current_pos, feed_rate_xy, feed_rate_z, safe_z, cut_z) ==
    LET start_point == entity.start
        end_point == entity.end
        rapid == IF NeedsRapid(current_pos, start_point[1], start_point[2])
                 THEN <<RapidXY(start_point[1], start_point[2])>> ELSE <<>>
    IN [lines |-> rapid \o << Plunge(cut_z, feed_rate_z),
                              LinearXY(end_point[1], end_point[2], feed_rate_xy),
                              Retract(safe_z) >>,
        pos |-> <<end_point[1], end_point[2], safe_z>>]

\* cosine of u sampling steps, times 1000 (exact at the quarter turns)
CosTab == <<1000, 997, 988, 972, 951, 924, 891, 853, 809, 760, 707,
            649, 588, 522, 454, 383, 309, 233, 156, 78, 0>>
Cos1000(u) ==
    LET m == u % Turn
        q == Turn \div 4
    IN CASE m <= q -> CosTab[m + 1]
         [] m <= 2 * q -> -CosTab[2 * q - m + 1]
         [] m <= 3 * q -> -CosTab[m - 2 * q + 1]
         [] OTHER -> CosTab[Turn - m + 1]
Sin1000(u) == Cos1000(u - Turn \div 4)
\* radius * cos(angle), radius * sin(angle)
RCos(radius, u) == RoundDiv(radius * Cos1000(u), 1000)
RSin(radius, u) == RoundDiv(radius * Sin1000(u), 1000)
\* math.radians: whole degrees to sampling steps (the drawing's angles are multiples of 90)
Radians(deg) == (deg * Turn) \div 360

\* "while a < 0: a += 360; while a >= 360: a -= 360"
RECURSIVE NormAngle(_)
NormAngle(a) ==
    IF a < 0 THEN NormAngle(a + 360)
    ELSE IF a >= 360 THEN NormAngle(a - 360)
    ELSE a

ArcCommandG03 == "G03"
arc_command == "G02"

SplitAtLt180(ccw_angle) == ccw_angle < 180
\* "if ccw_angle <= 180": one segment
SingleSegment(ccw_angle) == ccw_angle <= 180

arc_to_gcode(entity, current_pos, feed_rate_xy, feed_rate_z, safe_z, cut_z) ==
    LET center == entity.center
        radius == entity.radius
        start_angle == NormAngle(entity.start_angle)
        end_angle == NormAngle(entity.end_angle)
        start_x == center[1] + RCos(radius, Radians(start_angle))
        start_y == center[2] + RSin(radius, Radians(start_angle))
        end_x == center[1] + RCos(radius, Radians(end_angle))
        end_y == center[2] + RSin(radius, Radians(end_angle))
        i_offset == center[1] - start_x
        j_offset == center[2] - start_y
        ccw_angle == (end_angle - start_angle) % 360
        mid_angle == (start_angle + 180) % 360
        mid_x == center[1] + RCos(radius, Radians(mid_angle))
        mid_y == center[2] + RSin(radius, Radians(mid_angle))
        segments == IF SingleSegment(ccw_angle)
                    THEN << <<end_x, end_y, i_offset, j_offset>> >>
                    ELSE << <<mid_x, mid_y, i_offset, j_offset>>,
                            <<end_x, end_y, center[1] - mid_x, center[2] - mid_y>> >>
        rapid == IF NeedsRapid(current_pos, start_x, start_y)
                 THEN <<RapidXY(start_x, start_y)>> ELSE <<>>
        arcs == [s \in 1..Len(segments) |->
                    ArcXY(arc_command, segments[s][1], segments[s][2],
                          segments[s][3], segments[s][4], feed_rate_xy)]
    IN [lines |-> rapid \o <<Plunge(cut_z, feed_rate_z)>> \o arcs \o <<Retract(safe_z)>>,
        pos |-> <<end_x, end_y, safe_z>>]

\* variant: the full circle as one arc command
circle_to_gcode_one_arc(entity, current_pos, feed_rate_xy, feed_rate_z, safe_z, cut_z) ==
    LET center == entity.center
        radius == entity.radius
        p1_start_x == center[1] - radius
        p1_start_y == center[2]
        rapid == IF NeedsRapid(current_pos, p1_start_x, p1_start_y)
                 THEN <<RapidXY(p1_start_x, p1_start_y)>> ELSE <<>>
    IN [lines |-> rapid \o << Plunge(cut_z, feed_rate_z),
                              ArcXY("G02", p1_start_x, p1_start_y,
                                    center[1] - p1_start_x, center[2] - p1_start_y, feed_rate_xy),
                              Retract(safe_z) >>,
        pos |-> <<p1_start_x, p1_start_y, safe_z>>]

circle_to_gcode(entity, current_pos, feed_rate_xy, feed_rate_z, safe_z, cut_z) ==
    LET center == entity.center
        radius == entity.radius
        p1_start_x == center[1] - radius
        p1_start_y == center[2]
        p1_end_x == center[1] + radius
        p1_end_y == center[2]
        i1_offset == center[1] - p1_start_x
        j1_offset == center[2] - p1_start_y
        i2_offset == center[1] - p1_end_x
        j2_offset == center[2] - p1_end_y
        rapid == IF NeedsRapid(current_pos, p1_start_x, p1_start_y)
                 THEN <<RapidXY(p1_start_x, p1_start_y)>> ELSE <<>>
    IN [lines |-> rapid \o << Plunge(cut_z, feed_rate_z),
                              ArcXY("G02", p1_end_x, p1_end_y, i1_offset, j1_offset, feed_rate_xy),
                              ArcXY("G02", p1_start_x, p1_start_y, i2_offset, j2_offset, feed_rate_xy),
                              Retract(safe_z) >>,
        pos |-> <<p1_start_x, p1_start_y, safe_z>>]

\* the segment loop of lwpolyline_to_gcode: points are <<x, y, bulge>>
\* variant: the bulge is read from the vertex a segment ends at
RECURSIVE PolySegmentsEndBulge(_, _, _)
PolySegmentsEndBulge(points, i, feed_rate_xy) ==
    IF i > Len(points) - 1 THEN <<>>
    ELSE LET bulge == points[i + 1][3]
             px2 == points[i + 1][1]
             py2 == points[i + 1][2]
             seg == IF bulge # 0
                    THEN << Line(WarningComment, <<>>), LinearXY(px2, py2, feed_rate_xy) >>
                    ELSE << LinearXY(px2, py2, feed_rate_xy) >>
         IN seg \o PolySegmentsEndBulge(points, i + 1, feed_rate_xy)

RECURSIVE PolySegments(_, _, _)
PolySegments(points, i, feed_rate_xy) ==
    IF i > Len(points) - 1 THEN <<>>
    ELSE LET bulge == points[i][3]
             px2 == points[i + 1][1]
             py2 == points[i + 1][2]
             seg == IF bulge # 0
                    THEN << Line(WarningComment, <<>>), LinearXY(px2, py2, feed_rate_xy) >>
                    ELSE << LinearXY(px2, py2, feed_rate_xy) >>
         IN seg \o PolySegments(points, i + 1, feed_rate_xy)

lwpolyline_to_gcode(entity, current_pos, feed_rate_xy, feed_rate_z, safe_z, cut_z) ==
    LET points == entity.points
    IN IF points = <<>> THEN [lines |-> <<>>, pos |-> current_pos]
       ELSE LET start_x == points[1][1]
                start_y == points[1][2]
                rapid == IF NeedsRapid(current_pos, start_x, start_y)
                         THEN <<RapidXY(start_x, start_y)>> ELSE <<>>
                last == points[Len(points)]
            IN [lines |-> rapid \o <<Plunge(cut_z, feed_rate_z)>>
                          \o PolySegments(points, 1, feed_rate_xy) \o <<Retract(safe_z)>>,
                pos |-> <<last[1], last[2], safe_z>>]

\* the dispatch on entity.dxftype() in the entity loop of dxf_to_gcode
entity_to_gcode(entity, current_pos, feed_rate_xy, feed_rate_z, safe_z, cut_z) ==
    CASE entity.type = "LINE" -> line_to_gcode(entity, current_pos, feed_rate_xy, feed_rate_z, safe_z, cut_z)
      [] entity.type = "ARC" -> arc_to_gcode(entity, current_pos, feed_rate_xy, feed_rate_z, safe_z, cut_z)
      [] entity.type = "CIRCLE" -> circle_to_gcode(entity, current_pos, feed_rate_xy, feed_rate_z, safe_z, cut_z)
      [] entity.type = "LWPOLYLINE" -> lwpolyline_to_gcode(entity, current_pos, feed_rate_xy, feed_rate_z, safe_z, cut_z)
      [] OTHER -> [lines |-> <<>>, pos |-> current_pos]


(***************************************************************************)
(* The passes of dxf_to_gcode over the assembled program text.             *)
(***************************************************************************)
\* re.sub(r'<k>([-+]?\d*\.?\d+)', repl, line): every word of letter k is rewritten
\* by repl; F(tok) is the new word
ReSubAdd(line, k, offset) ==
    [line EXCEPT !.toks = [i \in 1..Len(line.toks) |->
        IF line.toks[i].k = k
        THEN Tok(k, Fmt3(ParseFloat(line.toks[i]) + offset), 3)
        ELSE line.toks[i]]]
ReSubSet(line, k, value) ==
    [line EXCEPT !.toks = [i \in 1..Len(line.toks) |->
        IF line.toks[i].k = k THEN Tok(k, Fmt3(value), 3) ELSE line.toks[i]]]

\* one line of the loop "for line in gcode" of the offset pass
TranslateLine(line, offset_x, offset_y) ==
    LET l1 == IF HasX(line) THEN ReSubAdd(line, "X", offset_x) ELSE line
    IN IF HasY(l1) THEN ReSubAdd(l1, "Y", offset_y) ELSE l1

\* variant: the pass stops before the footer
OffsetPassSkipsFooter(gcode, offset_x, offset_y) ==
    [i \in 1..Len(gcode) |->
        IF i > Len(gcode) - 4 THEN gcode[i] ELSE TranslateLine(gcode[i], offset_x, offset_y)]
\* "if offset_x or offset_y: ... gcode = translated"
ApplyOffset(gcode, offset_x, offset_y) ==
    IF offset_x # 0 \/ offset_y # 0
    THEN [i \in 1..Len(gcode) |-> TranslateLine(gcode[i], offset_x, offset_y)]
    ELSE gcode

IsXY(line) == HasX(line) /\ HasY(line)
\* indices of the lines holding both an 'X' and a 'Y'
XYLines(lines) == {i \in 1..Len(lines) : IsXY(lines[i])}
Min(S) == CHOOSE m \in S : \A n \in S : m <= n
Max(S) == CHOOSE m \in S : \A n \in S : m >= n

\* variant: the forward scan has no break
SetEveryXY(pre_gcode, start_x, start_y) ==
    [i \in 1..Len(pre_gcode) |->
        IF IsXY(pre_gcode[i])
        THEN ReSubSet(ReSubSet(pre_gcode[i], "X", start_x), "Y", start_y)
        ELSE pre_gcode[i]]
\* "update first XY move": the forward scan with its break
SetFirstXY(pre_gcode, start_x, start_y) ==
    IF XYLines(pre_gcode) = {} THEN pre_gcode
    ELSE LET i == Min(XYLines(pre_gcode))
         IN [pre_gcode EXCEPT ![i] = ReSubSet(ReSubSet(pre_gcode[i], "X", start_x), "Y", start_y)]
\* "update last XY move": the backward scan with its break
SetLastXY(pre_gcode, end_x, end_y) ==
    IF XYLines(pre_gcode) = {} THEN pre_gcode
    ELSE LET i == Max(XYLines(pre_gcode))
         IN [pre_gcode EXCEPT ![i] = ReSubSet(ReSubSet(pre_gcode[i], "X", end_x), "Y", end_y)]

\* "pre_gcode = gcode[:-len(footer)]"
PreGcode(gcode, footer) == SubSeq(gcode, 1, Len(gcode) - Len(footer))

\* variant: the footer of gcode is kept instead of a fresh one
OverrideKeepsFooter(gcode, safe_z, start_x, start_y, end_x, end_y) ==
    LET footer == generate_gcode_footer(safe_z)
        pre_gcode == PreGcode(gcode, footer)
    IN SetLastXY(SetFirstXY(pre_gcode, start_x, start_y), end_x, end_y)
       \o SubSeq(gcode, Len(gcode) - Len(footer) + 1, Len(gcode))
\* variant: the last XY move is updated before the first
OverrideEndThenStart(gcode, safe_z, start_x, start_y, end_x, end_y) ==
    LET footer == generate_gcode_footer(safe_z)
        pre_gcode == PreGcode(gcode, footer)
    IN SetFirstXY(SetLastXY(pre_gcode, end_x, end_y), start_x, start_y) \o footer
\* variant: the scans run over the whole of gcode, footer included
OverrideIncludesFooter(gcode, safe_z, start_x, start_y, end_x, end_y) ==
    SetLastXY(SetFirstXY(gcode, start_x, start_y), end_x, end_y)
\* "Custom start/end G-code adjustments (exclude footer)": gcode = pre_gcode + footer
ApplyOverride(gcode, safe_z, start_x, start_y, end_x, end_y) ==
    LET footer == generate_gcode_footer(safe_z)
        pre_gcode == PreGcode(gcode, footer)
    IN SetLastXY(SetFirstXY(pre_gcode, start_x, start_y), end_x, end_y) \o footer

(***************************************************************************)
(* Inputs: the drawings and the arguments the model draws from.            *)
(***************************************************************************)
Pt(x, y) == <<Milli(x), Milli(y)>>
LineEnt(s, e) == [type |-> "LINE", start |-> s, end |-> e]
ArcEnt(c, r, sa, ea) == [type |-> "ARC", center |-> c, radius |-> r, start_angle |-> sa, end_angle |-> ea]
CircleEnt(c, r) == [type |-> "CIRCLE", center |-> c, radius |-> r]
PolyEnt(pts) == [type |-> "LWPOLYLINE", points |-> pts]

\* the sample drawing of create_test_dxf.py
SampleLine == LineEnt(Pt(0, 0), Pt(50000, 50000))
SampleArc == ArcEnt(Pt(75000, 25000), Milli(25000), 180, 0)
SampleCircle == CircleEnt(Pt(25000, 75000), Milli(10000))
SamplePoly == PolyEnt(<< <<Milli(110000), Milli(10000), 0>>, <<Milli(140000), Milli(10000), 0>>,
                         <<Milli(140000), Milli(30000), 0>>, <<Milli(110000), Milli(30000), 0>>,
                         <<Milli(110000), Milli(10000), 0>> >>)

\* drawing angles: multiples of 90 degrees, normalized or not
Angles == {-90, 0, 90, 180, 270, 360, 450}
Lines == { SampleLine,
           LineEnt(Pt(50000, 50000), Pt(50000, 25000)),
           LineEnt(<<Milli(10000) + 1, Milli(20000)>>, <<Milli(-30000), Milli(40000) - 1>>) }
Arcs == { ArcEnt(c, r, sa, ea) : c \in {Pt(75000, 25000)}, r \in {Milli(25000), 1, 0},
                                 sa \in Angles, ea \in Angles }
Circles == { CircleEnt(c, r) : c \in {Pt(25000, 75000), <<1, Milli(-2000)>>},
                               r \in {Milli(10000), Milli(2000) + 1, 0} }
Polys == { PolyEnt(<<>>),
           PolyEnt(<< <<Milli(1000), Milli(2000), 0>> >>),
           PolyEnt(<< <<Milli(50000), Milli(25000), 1>>, <<Milli(3000), Milli(4000), 0>>,
                      <<Milli(5000), Milli(4000) + 1, -1>> >>),
           SamplePoly }
Unsupported == { [type |-> "POINT"] }
AllEntities == Lines \cup Arcs \cup Circles \cup Polys \cup Unsupported
\* the entities that are combined into drawings of several entities
CoreEntities == { SampleLine, LineEnt(Pt(50000, 50000), Pt(50000, 25000)),
                  SampleArc, ArcEnt(Pt(75000, 25000), Milli(25000), 90, 0),
                  SampleCircle,
                  PolyEnt(<< <<Milli(1000), Milli(2000), 0>> >>),
                  PolyEnt(<< <<Milli(50000), Milli(25000), 1>>, <<Milli(3000), Milli(4000), 0>>,
                             <<Milli(5000), Milli(4000) + 1, -1>> >>),
                  [type |-> "POINT"] }
Drawings == { <<e>> : e \in AllEntities }
            \cup UNION { [1..n -> CoreEntities] : n \in 0..MaxEntities }

\* offset_x, offset_y, start_x, start_y, end_x, end_y
Offsets == { <<0, 0>>, <<Milli(2000), 0>>, <<1, Milli(-1500)>> }
Starts == { <<0, 0>>, <<Milli(7000), Milli(8000)>> }
Ends == { <<0, 0>>, <<Milli(9000), Milli(6000)>>, <<Milli(7000), Milli(8000)>> }
Args == { [offset_x |-> o[1], offset_y |-> o[2], start_x |-> s[1], start_y |-> s[2],
           end_x |-> e[1], end_y |-> e[2]] : o \in Offsets, s \in Starts, e \in Ends }

(***************************************************************************)
(* State of one run of dxf_to_gcode followed by simulate_gcode.            *)
(***************************************************************************)
VARIABLES
    pc,           \* where the run is
    entities,     \* msp: the drawing's entities, in order
    args,         \* offset_x .. end_y
    idx,          \* the entity loop's position
    gcode,        \* the list "gcode"
    current_pos,  \* the tracked tool position, None at first
    blocks,       \* per entity: the position it was converted from and its entity_gcode
    assembled,    \* gcode before the offset pass
    translated,   \* gcode after the offset pass
    gcode_file,   \* the written program, None before it is written
    segments_by_z,     \* simulate_gcode: z -> the points and break markers of that height
    tool_path_points,  \* simulate_gcode: the animation path
    html_file,         \* simulation_plot.html: None, or what the last simulation wrote
    convert_pc,   \* app.py: where each /convert request is in convert()
    request,      \* app.py: request.files and request.form of each request
    uploads,      \* app.py: the files of UPLOAD_FOLDER, by base name
    outputs,      \* app.py: the files of OUTPUT_FOLDER, by base name
    plot_file,    \* app.py: simulation_plot.html in the working directory of the server
    response,     \* app.py: what each request was answered
    conversion    \* app.py: what the call of dxf_to_gcode gave each request: value and printed message

simVars == <<segments_by_z, tool_path_points, html_file>>
webVars == <<convert_pc, request, uploads, outputs, plot_file, response, conversion>>

\* the server: no request received yet, its folders empty
Requests == 1..MaxRequests
Bases == {"part", "plate"}
NoFile == [kind |-> "missing"]
NoRequest == [kind |-> "none"]
NoResponse == [status |-> 0]
NotCalled == [value |-> "pending", printed |-> ""]
WebIdle ==
    /\ convert_pc = [r \in Requests |-> "idle"]
    /\ request = [r \in Requests |-> NoRequest]
    /\ uploads = [b \in Bases |-> NoFile]
    /\ outputs = [b \in Bases |-> NoFile]
    /\ plot_file = NoFile
    /\ response = [r \in Requests |-> NoResponse]
    /\ conversion = [r \in Requests |-> NotCalled]
convVars == <<pc, entities, args, idx, gcode, current_pos, blocks, assembled, translated, gcode_file>>

ConvInit ==
    /\ pc = "entities"
    /\ entities \in Drawings
    /\ args \in Args
    /\ idx = 1
    /\ gcode = generate_gcode_header(DEFAULT_SAFE_Z)
    /\ current_pos = None
    /\ blocks = <<>>
    /\ assembled = None
    /\ translated = None
    /\ gcode_file = None

\* one turn of "for entity in msp"
ConvertEntity ==
    /\ pc = "entities"
    /\ idx <= Len(entities)
    /\ LET r == entity_to_gcode(entities[idx], current_pos, DEFAULT_FEED_RATE_XY,
                                DEFAULT_FEED_RATE_Z, DEFAULT_SAFE_Z, DEFAULT_CUT_Z)
       IN /\ gcode' = gcode \o r.lines
          /\ current_pos' = r.pos
          /\ blocks' = Append(blocks, [from |-> current_pos, lines |-> r.lines, pos |-> r.pos])
    /\ idx' = idx + 1
    /\ UNCHANGED <<pc, entities, args, assembled, translated, gcode_file, simVars, webVars>>

\* "gcode.extend(generate_gcode_footer(safe_z))"
AppendFooter ==
    /\ pc = "entities"
    /\ idx > Len(entities)
    /\ gcode' = gcode \o generate_gcode_footer(DEFAULT_SAFE_Z)
    /\ assembled' = gcode'
    /\ pc' = "offset"
    /\ UNCHANGED <<entities, args, idx, current_pos, blocks, translated, gcode_file, simVars, webVars>>

\* "Apply global XY translation offsets"
OffsetPass ==
    /\ pc = "offset"
    /\ gcode' = ApplyOffset(gcode, args.offset_x, args.offset_y)
    /\ translated' = gcode'
    /\ pc' = "override"
    /\ UNCHANGED <<entities, args, idx, current_pos, blocks, assembled, gcode_file, simVars, webVars>>

\* "Custom start/end G-code adjustments"
OverridePass ==
    /\ pc = "override"
    /\ gcode' = ApplyOverride(gcode, DEFAULT_SAFE_Z, args.start_x, args.start_y, args.end_x, args.end_y)
    /\ pc' = "write"
    /\ UNCHANGED <<entities, args, idx, current_pos, blocks, assembled, translated, gcode_file, simVars, webVars>>

\* "with open(gcode_filepath, 'w') as f: ..."
WriteFile ==
    /\ pc = "write"
    /\ gcode_file' = gcode
    /\ pc' = "simulate"
    /\ UNCHANGED <<entities, args, idx, gcode, current_pos, blocks, assembled, translated, simVars, webVars>>


(***************************************************************************)
(* simulate_gcode: the interpreter of the program text.                    *)
(***************************************************************************)
Abs(a) == IF a < 0 THEN -a ELSE a

RECURSIVE ISqrtIn(_, _, _)
ISqrtIn(n, lo, hi) ==
    IF lo >= hi THEN lo
    ELSE LET mid == (lo + hi + 1) \div 2
         IN IF mid * mid <= n THEN ISqrtIn(n, mid, hi) ELSE ISqrtIn(n, lo, mid - 1)
\* math.sqrt(i**2 + j**2); exact when i or j is 0, else to about 1 part in 10000
Hypot(i, j) ==
    IF j = 0 THEN Abs(i)
    ELSE IF i = 0 THEN Abs(j)
    ELSE LET m == IF Abs(i) > Abs(j) THEN Abs(i) ELSE Abs(j)
             s == 1 + m \div 20000
             a == Abs(i) \div s
             b == Abs(j) \div s
         IN ISqrtIn(a * a + b * b, 0, 2 * (a + b)) * s

\* math.atan2(dy, dx) in sampling steps, in (-Pi, Pi]: the step whose direction is
\* nearest to (dx, dy); exact for directions that are whole steps
Atan2(dy, dx) ==
    CASE dx = 0 /\ dy = 0 -> 0
      [] dy = 0 /\ dx # 0 -> IF dx > 0 THEN 0 ELSE Pi
      [] dx = 0 /\ dy # 0 -> IF dy > 0 THEN Pi \div 2 ELSE -(Pi \div 2)
      [] OTHER -> LET Dot(u) == dx * Cos1000(u) + dy * Sin1000(u)
                      best == Max({Dot(u) : u \in (1 - Pi)..Pi})
                  IN CHOOSE u \in (1 - Pi)..Pi : Dot(u) = best

BlankLine == ""
PlainComment == "; comment"
\* "if not line or line.startswith(';'): continue"
IsSkipped(line) == line.cmd \in {BlankLine, PlainComment, WarningComment}

Rapids == {"G0", "G00"}
Linears == {"G1", "G01"}
CWs == {"G2", "G02"}
CCWs == {"G3", "G03"}

\* the last word of letter k on the line: a later word overwrites an earlier one
LastTok(line, k) == line.toks[Max({i \in 1..Len(line.toks) : line.toks[i].k = k})]
\* a word float() cannot read is printed with d < 0
Malformed(line) == \E i \in 1..Len(line.toks) :
                       line.toks[i].k \in {"X", "Y", "Z", "I", "J"} /\ line.toks[i].d < 0
\* "coords = {'x': current x, 'y': .., 'z': .., 'i': 0, 'j': 0}" and the loop over the words
Coords(line, x, y, z) ==
    [x |-> IF HasTok(line, "X") THEN ParseFloat(LastTok(line, "X")) ELSE x,
     y |-> IF HasTok(line, "Y") THEN ParseFloat(LastTok(line, "Y")) ELSE y,
     z |-> IF HasTok(line, "Z") THEN ParseFloat(LastTok(line, "Z")) ELSE z,
     i |-> IF HasTok(line, "I") THEN ParseFloat(LastTok(line, "I")) ELSE 0,
     j |-> IF HasTok(line, "J") THEN ParseFloat(LastTok(line, "J")) ELSE 0]

\* start_angle and end_angle of an arc line read at (x, y)
ArcStartAngle(x, y, c) == Atan2(y - (y + c.j), x - (x + c.i))
ArcEndAngle(x, y, c) == Atan2(c.y - (y + c.j), c.x - (x + c.i))

\* get_arc_points: clockwise runs to a smaller angle, counter-clockwise to a larger one
AdjustSpecDirection(command, start_angle, end_angle) ==
    IF command \in CWs
    THEN IF end_angle >= start_angle THEN end_angle - Turn ELSE end_angle
    ELSE IF end_angle <= start_angle THEN end_angle + Turn ELSE end_angle
\* the first adjustment of end_angle, made by both loops of simulate_gcode
AdjustFirst(command, start_angle, end_angle) ==
    IF command \in CCWs
    THEN IF end_angle > start_angle THEN end_angle - Turn ELSE end_angle
    ELSE IF end_angle < start_angle THEN end_angle + Turn ELSE end_angle
\* the second adjustment, made by the Z-grouped pass only
AdjustSecond(command, start_angle, end_angle) ==
    IF command \in CWs
    THEN IF end_angle <= start_angle THEN end_angle + Turn ELSE end_angle
    ELSE IF end_angle >= start_angle THEN end_angle - Turn ELSE end_angle

\* theta_values = [start + (end - start) * i / (num_points - 1) for i in range(num_points)]
ThetaValues(start_angle, end_angle) ==
    [n \in 1..num_points |-> start_angle + RoundDiv((end_angle - start_angle) * (n - 1), num_points - 1)]

\* theta_values of an arc line in the Z-grouped pass and in the animation pass
ZThetas(command, x, y, c) ==
    LET start_angle == ArcStartAngle(x, y, c)
        end_angle == AdjustSecond(command, start_angle,
                         AdjustFirst(command, start_angle, ArcEndAngle(x, y, c)))
    IN ThetaValues(start_angle, end_angle)
AnimThetas(command, x, y, c) ==
    LET start_angle == ArcStartAngle(x, y, c)
        end_angle == AdjustFirst(command, start_angle, ArcEndAngle(x, y, c))
    IN ThetaValues(start_angle, end_angle)

\* (center_x + radius * cos(theta), center_y + radius * sin(theta)) for each theta
ArcSamples(thetas, x, y, c) ==
    LET radius == Hypot(c.i, c.j)
    IN [n \in 1..Len(thetas) |-> << (x + c.i) + RCos(radius, thetas[n]),
                                    (y + c.j) + RSin(radius, thetas[n]) >>]

\* segments_by_z.setdefault(z_level, ...) extended by pts
Extend(seg, z_level, pts) ==
    IF z_level \in DOMAIN seg
    THEN [seg EXCEPT ![z_level] = @ \o pts]
    ELSE [k \in DOMAIN seg \cup {z_level} |-> IF k = z_level THEN pts ELSE seg[k]]

\* variant: the bucket is keyed by the Z the line moves to
ZLineKeyedByTarget(st, line) ==
    IF IsSkipped(line) THEN st
    ELSE LET c == Coords(line, st.x, st.y, st.z)
             seg == CASE line.cmd \in Rapids \cup Linears ->
                           Extend(st.seg, c.z, << <<st.x, st.y>>, <<c.x, c.y>>, None >>)
                      [] line.cmd \in CWs \cup CCWs ->
                           Extend(st.seg, c.z,
                                  ArcSamples(ZThetas(line.cmd, st.x, st.y, c), st.x, st.y, c)
                                  \o <<None>>)
                      [] OTHER -> st.seg
         IN [x |-> c.x, y |-> c.y, z |-> c.z, seg |-> seg]

\* one line of the first loop: st = [x, y, z, seg]
ZLine(st, line) ==
    IF IsSkipped(line) THEN st
    ELSE LET c == Coords(line, st.x, st.y, st.z)
             seg == CASE line.cmd \in Rapids \cup Linears ->
                           Extend(st.seg, st.z, << <<st.x, st.y>>, <<c.x, c.y>>, None >>)
                      [] line.cmd \in CWs \cup CCWs ->
                           Extend(st.seg, st.z,
                                  ArcSamples(ZThetas(line.cmd, st.x, st.y, c), st.x, st.y, c)
                                  \o <<None>>)
                      [] OTHER -> st.seg
         IN [x |-> c.x, y |-> c.y, z |-> c.z, seg |-> seg]

ZInit == [x |-> 0, y |-> 0, z |-> 0, seg |-> <<>>]
\* the state of the first loop after the first n lines
RECURSIVE ZPass(_, _)
ZPass(lines, n) == IF n = 0 THEN ZInit ELSE ZLine(ZPass(lines, n - 1), lines[n])

\* one line of the second loop: st = [x, y, z, pts]
AnimLine(st, line) ==
    IF IsSkipped(line) THEN st
    ELSE LET c == Coords(line, st.x, st.y, st.z)
         IN CASE line.cmd \in Rapids \cup Linears ->
                   [x |-> c.x, y |-> c.y, z |-> c.z, pts |-> Append(st.pts, <<c.x, c.y>>)]
              [] line.cmd \in CWs \cup CCWs ->
                   [x |-> c.x, y |-> c.y, z |-> c.z,
                    pts |-> st.pts \o ArcSamples(AnimThetas(line.cmd, st.x, st.y, c), st.x, st.y, c)]
              [] OTHER -> st

AnimInit == [x |-> 0, y |-> 0, z |-> 0, pts |-> <<>>]
RECURSIVE AnimPass(_, _)
AnimPass(lines, n) == IF n = 0 THEN AnimInit ELSE AnimLine(AnimPass(lines, n - 1), lines[n])

\* variant: the end point is written before the translation
PostProcessEndFirst(points, start_x, start_y, end_x, end_y) ==
    LET p0 == IF points = <<>> THEN << <<0, 0>> >> ELSE points
        dx == start_x - p0[1][1]
        dy == start_y - p0[1][2]
        p1 == [p0 EXCEPT ![Len(p0)] = <<end_x, end_y>>]
    IN IF start_x # 0 \/ start_y # 0
       THEN [n \in 1..Len(p1) |-> <<p1[n][1] + dx, p1[n][2] + dy>>]
       ELSE p1

\* "if not tool_path_points ... tool_path_points[-1] = [end_x, end_y]"
PostProcess(points, start_x, start_y, end_x, end_y) ==
    LET p0 == IF points = <<>> THEN << <<0, 0>> >> ELSE points
        dx == start_x - p0[1][1]
        dy == start_y - p0[1][2]
        p1 == IF start_x # 0 \/ start_y # 0
              THEN [n \in 1..Len(p0) |-> <<p0[n][1] + dx, p0[n][2] + dy>>]
              ELSE p0
    IN [p1 EXCEPT ![Len(p1)] = <<end_x, end_y>>]

SimInit ==
    /\ segments_by_z = <<>>
    /\ tool_path_points = <<>>
    /\ html_file = None

\* the first loop over gcode_lines; a word float() cannot read ends simulate_gcode
\* in its outer "except Exception"
SimZPass ==
    /\ pc = "simulate"
    /\ IF \E n \in 1..Len(gcode_file) : ~IsSkipped(gcode_file[n]) /\ Malformed(gcode_file[n])
       THEN /\ pc' = "sim_failed"
            /\ UNCHANGED segments_by_z
       ELSE /\ pc' = "animate"
            /\ segments_by_z' = ZPass(gcode_file, Len(gcode_file)).seg
    /\ UNCHANGED <<webVars, entities, args, idx, gcode, current_pos, blocks, assembled, translated,
                   gcode_file, tool_path_points, html_file>>

\* the second loop over gcode_lines
SimAnimPass ==
    /\ pc = "animate"
    /\ tool_path_points' = AnimPass(gcode_file, Len(gcode_file)).pts
    /\ pc' = "post"
    /\ UNCHANGED <<webVars, entities, args, idx, gcode, current_pos, blocks, assembled, translated,
                   gcode_file, segments_by_z, html_file>>

\* the post-processing of the animation path and the writing of simulation_plot.html
SimPost ==
    /\ pc = "post"
    /\ tool_path_points' = PostProcess(tool_path_points, args.start_x, args.start_y,
                                       args.end_x, args.end_y)
    /\ html_file' = [traces |-> segments_by_z, points |-> tool_path_points', text |-> gcode_file]
    /\ pc' = "done"
    /\ UNCHANGED <<webVars, entities, args, idx, gcode, current_pos, blocks, assembled, translated,
                   gcode_file, segments_by_z>>

(***************************************************************************)
(* Spec: one run of dxf_to_gcode on a drawing, then simulate_gcode on the  *)
(* program it wrote (main with --simulate; one /convert request).          *)
(***************************************************************************)
vars == <<convVars, simVars, webVars>>

Init == ConvInit /\ SimInit /\ WebIdle

Next ==
    \/ ConvertEntity
    \/ AppendFooter
    \/ OffsetPass
    \/ OverridePass
    \/ WriteFile
    \/ SimZPass
    \/ SimAnimPass
    \/ SimPost

Spec == Init /\ [][Next]_vars


(***************************************************************************)
(* SpecSim: simulate_gcode on any program text.                            *)
(***************************************************************************)
\* the arc line of the interpretation scenario, and its counter-clockwise twin
ExampleG02 == ArcXY("G02", Milli(10000), 0, Milli(5000), 0, DEFAULT_FEED_RATE_XY)
ExampleG03 == ArcXY("G03", Milli(10000), 0, Milli(5000), 0, DEFAULT_FEED_RATE_XY)
SimLines ==
    { ExampleG02, ExampleG03,
      Line("G2", <<Tok("X", 0, 3), Tok("Y", 10000, 3), Tok("I", 0, 3), Tok("J", 5000, 3)>>),
      Line("G3", <<Tok("X", 0, 3), Tok("Y", 0, 3), Tok("I", -4000, 3), Tok("J", 0, 3)>>),
      Line("G02", <<Tok("X", 3000, 3), Tok("Y", 3000, 3), Tok("I", 3000, 3), Tok("J", 0, 3)>>),
      RapidXY(Milli(10000), 0),
      Line("G0", <<Tok("X", 0, 3), Tok("Y", 10000, 3)>>),
      Plunge(DEFAULT_CUT_Z, DEFAULT_FEED_RATE_Z),
      Line("G1", <<Tok("X", 6000, 3), Tok("Z", -300, 3)>>),
      Line("G28", <<Tok("X", 5000, 3), Tok("Z", 1000, 3)>>),
      Line("M3", <<Tok("S", 1000, 0)>>),
      Line("G01", <<Tok("X", 0, -1), Tok("Y", 2000, 3)>>),
      Line(BlankLine, <<>>),
      Line(PlainComment, <<>>) }
Programs == UNION { [1..n -> SimLines] : n \in 0..MaxProgLen }
SimArgs == { a \in Args : a.offset_x = 0 /\ a.offset_y = 0 }

InitSim ==
    /\ pc = "simulate"
    /\ gcode_file \in Programs
    /\ args \in SimArgs
    /\ entities = <<>>
    /\ idx = 1
    /\ gcode = <<>>
    /\ current_pos = None
    /\ blocks = <<>>
    /\ assembled = None
    /\ translated = None
    /\ SimInit
    /\ WebIdle

NextSim ==
    \/ SimZPass
    \/ SimAnimPass
    \/ SimPost

SpecSim == InitSim /\ [][NextSim]_vars

(***************************************************************************)
(* SpecWeb: /convert requests served by app.py, each running convert().    *)
(***************************************************************************)
\* "for entity in msp": gcode and current_pos after the first n entities
RECURSIVE EntityLoop(_, _)
EntityLoop(ents, n) ==
    IF n = 0 THEN [gcode |-> generate_gcode_header(DEFAULT_SAFE_Z), pos |-> None]
    ELSE LET st == EntityLoop(ents, n - 1)
             r == entity_to_gcode(ents[n], st.pos, DEFAULT_FEED_RATE_XY,
                                  DEFAULT_FEED_RATE_Z, DEFAULT_SAFE_Z, DEFAULT_CUT_Z)
         IN [gcode |-> st.gcode \o r.lines, pos |-> r.pos]

\* the program dxf_to_gcode writes for a readable drawing
dxf_to_gcode(ents, a) ==
    ApplyOverride(
        ApplyOffset(EntityLoop(ents, Len(ents)).gcode \o generate_gcode_footer(DEFAULT_SAFE_Z),
                    a.offset_x, a.offset_y),
        DEFAULT_SAFE_Z, a.start_x, a.start_y, a.end_x, a.end_y)

\* what simulate_gcode writes to simulation_plot.html for a program it can read
simulate_gcode(lines, a) ==
    [kind |-> "html",
     traces |-> ZPass(lines, Len(lines)).seg,
     points |-> PostProcess(AnimPass(lines, Len(lines)).pts, a.start_x, a.start_y, a.end_x, a.end_y),
     text |-> lines]
SimulationFails(lines) == \E n \in 1..Len(lines) : ~IsSkipped(lines[n]) /\ Malformed(lines[n])

ALLOWED_EXTENSIONS == {"dxf"}
allowed_file(ext) == ext \in ALLOWED_EXTENSIONS
DxfFile(ents) == [kind |-> "dxf", entities |-> ents]
CorruptDxf == [kind |-> "corrupt"]
DxfFiles == { DxfFile(<<SampleLine>>), DxfFile(<<SampleCircle>>), CorruptDxf }
DefaultArgs == [offset_x |-> 0, offset_y |-> 0, start_x |-> 0, start_y |-> 0, end_x |-> 0, end_y |-> 0]
WebArgs == { DefaultArgs,
             [offset_x |-> Milli(2000), offset_y |-> 0, start_x |-> Milli(7000),
              start_y |-> Milli(8000), end_x |-> Milli(9000), end_y |-> Milli(6000)] }
Uploads ==
    { [kind |-> "upload", base |-> b, ext |-> "dxf", file |-> f, args |-> a] :
         b \in Bases, f \in DxfFiles, a \in WebArgs }
    \cup { [kind |-> "upload", base |-> "part", ext |-> "txt",
            file |-> DxfFile(<<SampleLine>>), args |-> DefaultArgs] }
Refreshes == { [kind |-> "refresh", base |-> b, args |-> a] : b \in Bases, a \in WebArgs }

InitWeb ==
    /\ pc = "serve"
    /\ entities = <<>>
    /\ args = DefaultArgs
    /\ idx = 1
    /\ gcode = <<>>
    /\ current_pos = None
    /\ blocks = <<>>
    /\ assembled = None
    /\ translated = None
    /\ gcode_file = None
    /\ SimInit
    /\ WebIdle

\* a request with a file: "if not allowed_file ... return 400", else "file.save(dxf_path)"
ReceiveUpload(r) ==
    /\ convert_pc[r] = "idle"
    /\ \E u \in Uploads :
          /\ request' = [request EXCEPT ![r] = u]
          /\ IF allowed_file(u.ext)
             THEN /\ uploads' = [uploads EXCEPT ![u.base] = u.file]
                  /\ convert_pc' = [convert_pc EXCEPT ![r] = "convert"]
                  /\ UNCHANGED response
             ELSE /\ response' = [response EXCEPT ![r] = [status |-> 400]]
                  /\ convert_pc' = [convert_pc EXCEPT ![r] = "done"]
                  /\ UNCHANGED uploads
    /\ UNCHANGED <<outputs, plot_file, conversion, convVars, simVars>>

\* a request with the form field 'filename' only
ReceiveRefresh(r) ==
    /\ convert_pc[r] = "idle"
    /\ \E u \in Refreshes : request' = [request EXCEPT ![r] = u]
    /\ convert_pc' = [convert_pc EXCEPT ![r] = "convert"]
    /\ UNCHANGED <<uploads, outputs, plot_file, response, conversion, convVars, simVars>>

\* a request with neither: "return 'No file provided', 400"
ReceiveEmpty(r) ==
    /\ convert_pc[r] = "idle"
    /\ request' = [request EXCEPT ![r] = [kind |-> "empty"]]
    /\ response' = [response EXCEPT ![r] = [status |-> 400]]
    /\ convert_pc' = [convert_pc EXCEPT ![r] = "done"]
    /\ UNCHANGED <<uploads, outputs, plot_file, conversion, convVars, simVars>>

\* what a call of dxf_to_gcode gives its caller: every path ends in a bare "return" or
\* falls off the end of the function, after printing a message
PyNone == "None"
CannotOpenDxf == "Error: Cannot open DXF file"
InvalidDxf == "Error: Invalid or corrupt DXF file"
CannotWriteGcode == "Error: Cannot write G-code file"
Converted == "Successfully converted"
Returned(message) == [value |-> PyNone, printed |-> message]

\* the call of dxf_to_gcode: a missing or corrupt DXF file makes it return without
\* writing gcode_path; so does an output file that cannot be opened for writing
CallConvert(r) ==
    /\ convert_pc[r] = "convert"
    /\ \E writable \in BOOLEAN :
          LET f == uploads[request[r].base]
          IN CASE f.kind = "missing" ->
                    /\ conversion' = [conversion EXCEPT ![r] = Returned(CannotOpenDxf)]
                    /\ UNCHANGED outputs
               [] f.kind = "corrupt" ->
                    /\ conversion' = [conversion EXCEPT ![r] = Returned(InvalidDxf)]
                    /\ UNCHANGED outputs
               [] f.kind = "dxf" /\ ~writable ->
                    /\ conversion' = [conversion EXCEPT ![r] = Returned(CannotWriteGcode)]
                    /\ UNCHANGED outputs
               [] f.kind = "dxf" /\ writable ->
                    /\ conversion' = [conversion EXCEPT ![r] = Returned(Converted)]
                    /\ outputs' = [outputs EXCEPT ![request[r].base] =
                                      [kind |-> "gcode",
                                       lines |-> dxf_to_gcode(f.entities, request[r].args)]]
    /\ convert_pc' = [convert_pc EXCEPT ![r] = "simulate"]
    /\ UNCHANGED <<request, uploads, plot_file, response, convVars, simVars>>

\* the call of simulate_gcode: any exception leaves simulation_plot.html as it was
CallSimulate(r) ==
    /\ convert_pc[r] = "simulate"
    /\ LET g == outputs[request[r].base]
       IN IF g.kind = "gcode" /\ ~SimulationFails(g.lines)
          THEN plot_file' = simulate_gcode(g.lines, request[r].args)
          ELSE UNCHANGED plot_file
    /\ convert_pc' = [convert_pc EXCEPT ![r] = "send"]
    /\ UNCHANGED <<request, uploads, outputs, response, conversion, convVars, simVars>>

\* "return send_file(os.path.join(os.getcwd(), 'simulation_plot.html'))"
SendFile(r) ==
    /\ convert_pc[r] = "send"
    /\ response' = [response EXCEPT ![r] =
                       IF plot_file.kind = "html"
                       THEN [status |-> 200, body |-> plot_file]
                       ELSE [status |-> 500]]
    /\ convert_pc' = [convert_pc EXCEPT ![r] = "done"]
    /\ UNCHANGED <<request, uploads, outputs, plot_file, conversion, convVars, simVars>>

NextWeb ==
    \E r \in Requests :
        \/ ReceiveUpload(r)
        \/ ReceiveRefresh(r)
        \/ ReceiveEmpty(r)
        \/ CallConvert(r)
        \/ CallSimulate(r)
        \/ SendFile(r)

SpecWeb == InitWeb /\ [][NextWeb]_vars


(***************************************************************************)
(* Properties.                                                             *)
(***************************************************************************)
HeaderLen == Len(generate_gcode_header(DEFAULT_SAFE_Z))
FooterLen == Len(generate_gcode_footer(DEFAULT_SAFE_Z))
\* the lines between header and footer
Body(prog) == SubSeq(prog, HeaderLen + 1, Len(prog) - FooterLen)
Written == gcode_file # None
NoOffset == args.offset_x = 0 /\ args.offset_y = 0
DefaultStartEnd == args.start_x = 0 /\ args.start_y = 0 /\ args.end_x = 0 /\ args.end_y = 0
\* the X and Y literals of a line, in thousandths
XYOf(line) == <<TokOf(line, "X").v, TokOf(line, "Y").v>>
Carries(line, x, y) ==
    /\ TokOf(line, "X") = Tok("X", Fmt3(x), 3)
    /\ TokOf(line, "Y") = Tok("Y", Fmt3(y), 3)
\* the arc commands of a block, in order
SelectArcs(lines) == SelectSeq(lines, LAMBDA l : l.cmd \in CWs \cup CCWs)

\* C1 (as claimed): for a drawing of one LINE (x0,y0)-(x1,y1), zero offsets and
\* start/end at their defaults, the body of the written program is
\* G00 X<x0> Y<y0>, G01 Z<cut_z> F<feed_z>, G01 X<x1> Y<y1> F<feed_xy>, G00 Z<safe_z>.
C1_SingleLineBody ==
    (Written /\ Len(entities) = 1 /\ entities[1].type = "LINE" /\ NoOffset /\ DefaultStartEnd)
    => Body(gcode_file) =
          << RapidXY(entities[1].start[1], entities[1].start[2]),
             Plunge(DEFAULT_CUT_Z, DEFAULT_FEED_RATE_Z),
             LinearXY(entities[1].end[1], entities[1].end[2], DEFAULT_FEED_RATE_XY),
             Retract(DEFAULT_SAFE_Z) >>

\* C2 (as claimed): in the written program the first body line holding both X and Y
\* carries (start_x, start_y) and the last such line carries (end_x, end_y), also
\* when the body holds only one such line.
C2_FirstStartLastEnd ==
    (Written /\ XYLines(Body(gcode_file)) # {})
    => LET body == Body(gcode_file)
       IN /\ Carries(body[Min(XYLines(body))], args.start_x, args.start_y)
          /\ Carries(body[Max(XYLines(body))], args.end_x, args.end_y)

\* C2 (amended): the last body line holding both X and Y carries (end_x, end_y);
\* the first such line carries (start_x, start_y) when the body holds at least two
\* such lines, and (end_x, end_y) when it holds exactly one.
C2_LastEndFirstStartIfTwo ==
    (Written /\ XYLines(Body(gcode_file)) # {})
    => LET body == Body(gcode_file)
           xy == XYLines(body)
       IN /\ Carries(body[Max(xy)], args.end_x, args.end_y)
          /\ Cardinality(xy) >= 2 => Carries(body[Min(xy)], args.start_x, args.start_y)
          /\ Cardinality(xy) = 1 => Carries(body[Min(xy)], args.end_x, args.end_y)

C2_Witness ==
    /\ Written
    /\ Cardinality(XYLines(Body(gcode_file))) = 1
    /\ <<args.start_x, args.start_y>> # <<args.end_x, args.end_y>>
    /\ args.offset_x # 0

\* the counter-clockwise sweep of an ARC, on angles normalized into [0, 360)
CcwSweep(e) == (NormAngle(e.end_angle) - NormAngle(e.start_angle)) % 360
\* the point of the circle opposite to the point at start_angle
Opposite(e) == << e.center[1] - RCos(e.radius, Radians(NormAngle(e.start_angle))),
                  e.center[2] - RSin(e.radius, Radians(NormAngle(e.start_angle))) >>

\* C3: for every ARC, arc_to_gcode emits one arc command when ccw_sweep <= 180 and
\* two when ccw_sweep > 180, the first of the two ending at the point at
\* start_angle + 180; every arc command is G02.
C3_ArcSegments ==
    \A n \in 1..Len(blocks) :
        entities[n].type = "ARC"
        => LET arcs == SelectArcs(blocks[n].lines)
               e == entities[n]
           IN /\ CcwSweep(e) <= 180 => Len(arcs) = 1
              /\ CcwSweep(e) > 180 =>
                    /\ Len(arcs) = 2
                    /\ Carries(arcs[1], Opposite(e)[1], Opposite(e)[2])
              /\ \A a \in 1..Len(arcs) : arcs[a].cmd = "G02"

C3_Witness ==
    \E n \in 1..Len(blocks) :
        /\ entities[n].type = "ARC"
        /\ CcwSweep(entities[n]) > 180
        /\ entities[n].radius > 0
        /\ Len(SelectArcs(blocks[n].lines)) = 2

\* C4: for every CIRCLE, circle_to_gcode emits exactly two G02 commands, the first
\* from (c.x - r, c.y) to (c.x + r, c.y) and the second back to (c.x - r, c.y); the
\* returned tool position is that start point at safe_z.
C4_CircleTwoArcs ==
    \A n \in 1..Len(blocks) :
        entities[n].type = "CIRCLE"
        => LET b == blocks[n]
               arcs == SelectArcs(b.lines)
               c == entities[n].center
               r == entities[n].radius
           IN /\ Len(arcs) = 2
              /\ arcs[1].cmd = "G02" /\ arcs[2].cmd = "G02"
              \* the block starts at (c.x - r, c.y): by a rapid there, or already there
              /\ \/ b.lines[1] = RapidXY(c[1] - r, c[2])
                 \/ /\ b.from # None /\ b.from[1] = c[1] - r /\ b.from[2] = c[2]
                    /\ b.lines[1] = Plunge(DEFAULT_CUT_Z, DEFAULT_FEED_RATE_Z)
              /\ Carries(arcs[1], c[1] + r, c[2])
              /\ TokOf(arcs[1], "I").v = Fmt3(r) /\ TokOf(arcs[1], "J").v = 0
              /\ Carries(arcs[2], c[1] - r, c[2])
              /\ TokOf(arcs[2], "I").v = Fmt3(-r) /\ TokOf(arcs[2], "J").v = 0
              /\ b.pos = <<c[1] - r, c[2], DEFAULT_SAFE_Z>>

C4_Witness ==
    \E n \in 1..Len(blocks) :
        /\ entities[n].type = "CIRCLE"
        /\ entities[n].radius > 0
        /\ blocks[n].from # None


Simulated == pc \in {"animate", "post", "done"}
StrictlyDecreasing(seq) == \A k \in 1..(Len(seq) - 1) : seq[k + 1] < seq[k]
StrictlyIncreasing(seq) == \A k \in 1..(Len(seq) - 1) : seq[k + 1] > seq[k]
Range(seq) == { seq[k] : k \in DOMAIN seq }

\* C5 (as claimed): simulate_gcode samples a G2/G02 arc with strictly decreasing
\* angle and a G3/G03 arc with strictly increasing angle, in both passes; the arc
\* 'G02 X10.000 Y0.000 I5.000 J0.000 F300.0' from (0,0) is drawn through (5,5)
\* and not through (5,-5).
C5_ArcDirection ==
    Simulated =>
      /\ \A n \in 1..Len(gcode_file) :
            (~IsSkipped(gcode_file[n]) /\ gcode_file[n].cmd \in CWs \cup CCWs)
            => LET line == gcode_file[n]
                   zs == ZPass(gcode_file, n - 1)
                   as == AnimPass(gcode_file, n - 1)
                   zth == ZThetas(line.cmd, zs.x, zs.y, Coords(line, zs.x, zs.y, zs.z))
                   ath == AnimThetas(line.cmd, as.x, as.y, Coords(line, as.x, as.y, as.z))
               IN IF line.cmd \in CWs
                  THEN StrictlyDecreasing(zth) /\ StrictlyDecreasing(ath)
                  ELSE StrictlyIncreasing(zth) /\ StrictlyIncreasing(ath)
      /\ gcode_file = <<ExampleG02>> =>
            /\ <<Milli(5000), Milli(5000)>> \in Range(segments_by_z[0])
            /\ <<Milli(5000), Milli(-5000)>> \notin Range(segments_by_z[0])
            /\ pc = "post" =>
                  /\ <<Milli(5000), Milli(5000)>> \in Range(tool_path_points)
                  /\ <<Milli(5000), Milli(-5000)>> \notin Range(tool_path_points)

Near(a, b) == Abs(a[1] - b[1]) <= TicksPerMilli /\ Abs(a[2] - b[2]) <= TicksPerMilli

\* C6 (as claimed): converting one LINE from p to q with zero offsets and default
\* start/end and simulating the written program gives an animation path whose
\* first point is p and whose last point is q.
C6_LineRoundTrip ==
    (pc = "done" /\ Len(entities) = 1 /\ entities[1].type = "LINE" /\ NoOffset /\ DefaultStartEnd)
    => /\ Near(tool_path_points[1], entities[1].start)
       /\ Near(tool_path_points[Len(tool_path_points)], entities[1].end)

Translated == translated # None
Shifted(tok, offset) == Tok(tok.k, Fmt3(ParseFloat(tok) + offset), 3)
SameShape(a, b) ==
    /\ Len(a) = Len(b)
    /\ \A n \in 1..Len(a) :
          /\ a[n].cmd = b[n].cmd
          /\ Len(a[n].toks) = Len(b[n].toks)
          /\ \A t \in 1..Len(a[n].toks) :
                /\ a[n].toks[t].k = b[n].toks[t].k
                /\ a[n].toks[t].k \notin {"X", "Y"} => a[n].toks[t] = b[n].toks[t]
\* the X and Y words of a program, as <<line, word>> positions
Words(prog, k) ==
    UNION { { <<n, t>> : t \in { u \in DOMAIN prog[n].toks : prog[n].toks[u].k = k } } :
            n \in DOMAIN prog }

\* C7 (as claimed): the offset pass is the identity at offset (0,0); for any offset
\* (dx,dy) it changes every X literal by exactly dx and every Y literal by exactly
\* dy and leaves the number and order of lines, the mnemonics and the Z, I, J and F
\* literals unchanged.
C7_ShiftExactly ==
    Translated =>
      /\ NoOffset => translated = assembled
      /\ SameShape(assembled, translated)
      /\ \A w \in Words(assembled, "X") :
            ParseFloat(translated[w[1]].toks[w[2]])
               = ParseFloat(assembled[w[1]].toks[w[2]]) + args.offset_x
      /\ \A w \in Words(assembled, "Y") :
            ParseFloat(translated[w[1]].toks[w[2]])
               = ParseFloat(assembled[w[1]].toks[w[2]]) + args.offset_y

\* C7 (amended): the offset pass is the identity at offset (0,0); for any other
\* offset (dx,dy) it rewrites every X literal v as v + dx rounded to three decimals
\* and every Y literal v as v + dy rounded to three decimals, and leaves the number
\* and order of lines, the mnemonics and the Z, I, J and F literals unchanged.
C7_ShiftRounded ==
    Translated =>
      /\ NoOffset => translated = assembled
      /\ SameShape(assembled, translated)
      /\ ~NoOffset =>
            /\ \A w \in Words(assembled, "X") :
                  translated[w[1]].toks[w[2]]
                     = Shifted(assembled[w[1]].toks[w[2]], args.offset_x)
            /\ \A w \in Words(assembled, "Y") :
                  translated[w[1]].toks[w[2]]
                     = Shifted(assembled[w[1]].toks[w[2]], args.offset_y)

\* an offset below the printed resolution met X literals that it left unchanged
C7_Witness ==
    /\ Translated
    /\ args.offset_x # 0
    /\ Fmt3(args.offset_x) = 0
    /\ \E w \in Words(assembled, "X") :
          /\ w[1] > HeaderLen /\ w[1] <= Len(assembled) - FooterLen
          /\ ParseFloat(translated[w[1]].toks[w[2]]) = ParseFloat(assembled[w[1]].toks[w[2]])

\* the home move of a program: its last line but one
HomeLine(prog) == prog[Len(prog) - 1]
HomeX0Y0 == Line("G00", <<Tok("X", 0, 0), Tok("Y", 0, 0)>>)

\* C8 (as claimed): with a non-zero offset the home move of the written program
\* carries (offset_x, offset_y) rather than (0,0).
C8_HomeShifted ==
    (Written /\ ~NoOffset)
    => /\ ParseFloat(TokOf(HomeLine(gcode_file), "X")) = Milli(Fmt3(args.offset_x))
       /\ ParseFloat(TokOf(HomeLine(gcode_file), "Y")) = Milli(Fmt3(args.offset_y))

\* C8 (amended): with a non-zero offset the offset pass moves the home move to
\* (offset_x, offset_y), but the program is written with a fresh footer, so the
\* home move of the written program is 'G00 X0 Y0' for every offset.
C8_HomeWrittenUnshifted ==
    /\ (Translated /\ ~NoOffset) => Carries(HomeLine(translated), args.offset_x, args.offset_y)
    /\ Written => HomeLine(gcode_file) = HomeX0Y0

C8_Witness ==
    /\ Written
    /\ args.offset_x = Milli(2000)
    /\ HomeLine(translated) # HomeX0Y0
    /\ entities # <<>>

Answered(r) == convert_pc[r] = "done" /\ response[r].status = 200

\* C10 (as claimed): under any interleaving of two /convert requests, and after any
\* earlier requests, failed ones included, the simulation_plot.html sent back for
\* an upload is the simulation of the program generated from that upload with
\* that request's parameters, never one produced by or for another request.
C10_OwnSimulation ==
    \A r \in Requests :
        (Answered(r) /\ request[r].kind = "upload")
        => /\ request[r].file.kind = "dxf"
           /\ response[r].body =
                 simulate_gcode(dxf_to_gcode(request[r].file.entities, request[r].args),
                                request[r].args)

\* the same with the requests served one after the other
C10_OwnSimulationSequential ==
    (\A r \in Requests : convert_pc[r] \in {"idle", "done"}) => C10_OwnSimulation

HasMalformedLine(prog) == \E n \in 1..Len(prog) : ~IsSkipped(prog[n]) /\ Malformed(prog[n])

\* C11 (as claimed): simulate_gcode never aborts mid-parse: a line with a word that
\* cannot be read as a number (an X, Y, Z, I or J followed by non-numeric or empty
\* text) is ignored, the later lines are interpreted, and both the Z-grouped path
\* and the animation path are produced.
C11_NeverAborts ==
    (gcode_file # None /\ HasMalformedLine(gcode_file))
    => pc # "sim_failed"

ConversionFailed(r) == conversion[r].printed \in {CannotOpenDxf, InvalidDxf, CannotWriteGcode}
ConversionSucceeded(r) == conversion[r].printed = Converted
\* a call of dxf_to_gcode on a source that cannot be read
UnreadableCall(r) ==
    /\ convert_pc[r] = "convert"
    /\ convert_pc'[r] = "simulate"
    /\ uploads[request[r].base].kind # "dxf"

\* C12 (as claimed): every failure of dxf_to_gcode (source cannot be opened or
\* parsed, output cannot be written) gives its caller a result that differs from
\* the result of a success, and a call on an unreadable source writes or modifies
\* no program file.
C12_FailuresReported ==
    /\ [](\A r1, r2 \in Requests :
             (ConversionFailed(r1) /\ ConversionSucceeded(r2))
             => conversion[r1].value # conversion[r2].value)
    /\ [][\A r \in Requests : UnreadableCall(r) => outputs' = outputs]_vars

\* the part of C12 that holds: a call on an unreadable source leaves the output folder alone
C12_UnreadableWritesNothing ==
    [][\A r \in Requests : UnreadableCall(r) => outputs' = outputs]_vars

\* the positions of the 'G01 X Y' cutting moves of a block, and the k-th of them
CutPositions(lines) == { j \in 1..Len(lines) : lines[j].cmd \in Linears /\ IsXY(lines[j]) }
KthCut(lines, k) == CHOOSE j \in CutPositions(lines) :
                        Cardinality({ i \in CutPositions(lines) : i <= j }) = k
WarningPositions(lines) == { j \in 1..Len(lines) : lines[j].cmd = WarningComment }

Supported == {"LINE", "ARC", "CIRCLE", "LWPOLYLINE"}
\* the point a converter starts cutting from
StartPoint(e) ==
    CASE e.type = "LINE" -> e.start
      [] e.type = "ARC" -> << e.center[1] + RCos(e.radius, Radians(NormAngle(e.start_angle))),
                              e.center[2] + RSin(e.radius, Radians(NormAngle(e.start_angle))) >>
      [] e.type = "CIRCLE" -> << e.center[1] - e.radius, e.center[2] >>
      [] e.type = "LWPOLYLINE" -> << e.points[1][1], e.points[1][2] >>
NoVertex(e) == e.type = "LWPOLYLINE" /\ e.points = <<>>
OneVertex(e) == e.type = "LWPOLYLINE" /\ Len(e.points) = 1
\* a block without its warning comments
Motions(lines) == SelectSeq(lines, LAMBDA l : l.cmd # WarningComment)
IsCut(l) ==
    /\ l.cmd \in Linears \cup CWs \cup CCWs
    /\ IsXY(l)
    /\ HasTok(l, "F") /\ TokOf(l, "F") = Tok("F", Fmt1(DEFAULT_FEED_RATE_XY), 1)
\* rapid exactly when the tool is not known to be at the start point, one plunge,
\* the cutting moves, one retract; cuts is the set of allowed numbers of cutting moves
Pattern(b, e, cuts) ==
    LET body == Motions(b.lines)
        start == StartPoint(e)
        away == b.from = None \/ b.from[1] # start[1] \/ b.from[2] # start[2]
        rest == IF away THEN Tail(body) ELSE body
    IN /\ Len(body) >= 2
       /\ away => body[1] = RapidXY(start[1], start[2])
       /\ Len(rest) >= 2
       /\ rest[1] = Plunge(DEFAULT_CUT_Z, DEFAULT_FEED_RATE_Z)
       /\ rest[Len(rest)] = Retract(DEFAULT_SAFE_Z)
       /\ \A j \in 2..(Len(rest) - 1) : IsCut(rest[j])
       /\ (Len(rest) - 2) \in cuts

\* C14 (as claimed): for every supported entity and every incoming tool position
\* the block is: a rapid 'G00 X Y' to the start point exactly when the tracked tool
\* position is unset or differs from it, one plunge 'G01 Z<cut_z>' at feed_z, one or
\* more cutting moves at feed_xy, one retract 'G00 Z<safe_z>', and nothing else but
\* warning comments.
C14_MotionPattern ==
    \A n \in 1..Len(blocks) :
        entities[n].type \in Supported
        => /\ ~NoVertex(entities[n])
           /\ Pattern(blocks[n], entities[n], 1..(2 * Len(blocks[n].lines) + 1))

\* C14 (amended): the block has that order with one or more cutting moves for every
\* LINE, ARC, CIRCLE and LWPOLYLINE of at least two vertices; for an LWPOLYLINE of
\* one vertex it has the rapid (when needed), the plunge and the retract with no
\* cutting move between them; for an LWPOLYLINE of no vertex it is empty and the
\* tool position is unchanged.
C14_MotionPatternByVertices ==
    \A n \in 1..Len(blocks) :
        entities[n].type \in Supported
        => IF NoVertex(entities[n])
           THEN blocks[n].lines = <<>> /\ blocks[n].pos = blocks[n].from
           ELSE IF OneVertex(entities[n])
           THEN Pattern(blocks[n], entities[n], {0})
           ELSE Pattern(blocks[n], entities[n], 1..(2 * Len(blocks[n].lines) + 1))

\* a one-vertex polyline converted after another supported entity
C14_Witness ==
    \E n \in 2..Len(blocks) :
        /\ OneVertex(entities[n])
        /\ Len(blocks[n].lines) = 3
        /\ blocks[n - 1].lines # <<>>
        /\ entities[n - 1].type \in Supported

\* the arc lines of a program that simulate_gcode interprets
ArcLines(prog) == { n \in 1..Len(prog) : ~IsSkipped(prog[n]) /\ prog[n].cmd \in CWs \cup CCWs }
\* the theta values and the samples of line n in the first and in the second loop
ZThetasAt(prog, n) ==
    LET st == ZPass(prog, n - 1)
    IN ZThetas(prog[n].cmd, st.x, st.y, Coords(prog[n], st.x, st.y, st.z))
AnimThetasAt(prog, n) ==
    LET st == AnimPass(prog, n - 1)
    IN AnimThetas(prog[n].cmd, st.x, st.y, Coords(prog[n], st.x, st.y, st.z))
ZSamplesAt(prog, n) ==
    LET st == ZPass(prog, n - 1)
    IN ArcSamples(ZThetasAt(prog, n), st.x, st.y, Coords(prog[n], st.x, st.y, st.z))
AnimSamplesAt(prog, n) ==
    LET st == AnimPass(prog, n - 1)
    IN ArcSamples(AnimThetasAt(prog, n), st.x, st.y, Coords(prog[n], st.x, st.y, st.z))
\* line n is a full-circle command: its target XY is the XY it is read at, in both loops
FullCircleAt(prog, n) ==
    LET zs == ZPass(prog, n - 1)
        as == AnimPass(prog, n - 1)
        zc == Coords(prog[n], zs.x, zs.y, zs.z)
        ac == Coords(prog[n], as.x, as.y, as.z)
    IN zc.x = zs.x /\ zc.y = zs.y /\ ac.x = as.x /\ ac.y = as.y
Sweep(thetas) == Abs(thetas[Len(thetas)] - thetas[1])

\* C15 (as claimed): for an arc line whose target XY equals the current XY,
\* simulate_gcode samples a sweep of one full turn in the Z-grouped pass and in the
\* animation pass, and both passes give the same 21 sample points for the line.
C15_FullCircleSweep ==
    (Simulated /\ ~HasMalformedLine(gcode_file))
    => \A n \in ArcLines(gcode_file) :
          FullCircleAt(gcode_file, n)
          => /\ Sweep(ZThetasAt(gcode_file, n)) = Turn
             /\ Sweep(AnimThetasAt(gcode_file, n)) = Turn
             /\ Len(ZSamplesAt(gcode_file, n)) = num_points
             /\ AnimSamplesAt(gcode_file, n) = ZSamplesAt(gcode_file, n)

Recognized == Rapids \cup Linears \cup CWs \cup CCWs
\* the non-comment lines of a program whose mnemonic simulate_gcode does not know
UnrecognizedLines(prog) == { n \in 1..Len(prog) : ~IsSkipped(prog[n]) /\ prog[n].cmd \notin Recognized }

\* C16 (as claimed): a non-comment line whose mnemonic is none of G0/G00/G1/G01/
\* G2/G02/G3/G03 adds no sample to the Z-grouped path or to the animation path and
\* leaves the tool position of both passes unchanged, also when it carries X, Y or
\* Z words.
C16_UnrecognizedIgnored ==
    (Simulated /\ ~HasMalformedLine(gcode_file))
    => \A n \in UnrecognizedLines(gcode_file) :
          /\ ZPass(gcode_file, n) = ZPass(gcode_file, n - 1)
          /\ AnimPass(gcode_file, n) = AnimPass(gcode_file, n - 1)

\* the part of C16 that holds: no sample is added, and the animation pass keeps its position
C16_NoSampleAnimUnmoved ==
    (Simulated /\ ~HasMalformedLine(gcode_file))
    => \A n \in UnrecognizedLines(gcode_file) :
          /\ ZPass(gcode_file, n).seg = ZPass(gcode_file, n - 1).seg
          /\ AnimPass(gcode_file, n) = AnimPass(gcode_file, n - 1)

\* the rapid, linear and arc lines of a program that simulate_gcode interprets
MoveLines(prog) == { n \in 1..Len(prog) : ~IsSkipped(prog[n]) /\ prog[n].cmd \in Recognized }
\* the Z held by the first loop when it reads line n, and the Z that line moves to
HeldZ(prog, n) == ZPass(prog, n - 1).z
TargetZ(prog, n) == Coords(prog[n], 0, 0, HeldZ(prog, n)).z
\* the entries a move adds to its bucket: its points and one break marker
MoveSize(line) == IF line.cmd \in CWs \cup CCWs THEN num_points + 1 ELSE 3
RECURSIVE SumSizes(_, _)
SumSizes(prog, S) ==
    IF S = {} THEN 0
    ELSE LET n == CHOOSE m \in S : TRUE
         IN MoveSize(prog[n]) + SumSizes(prog, S \ {n})
\* the moves read at held Z = z, and where the entries of move n begin in that bucket
MovesAt(prog, z) == { n \in MoveLines(prog) : HeldZ(prog, n) = z }
OffsetIn(prog, n) == SumSizes(prog, { m \in MovesAt(prog, HeldZ(prog, n)) : m < n })

\* C17: every rapid, linear or arc move is appended to the bucket keyed by the Z held
\* before its line is applied (0 at first), never the Z the line moves to, and in
\* every bucket the points of two different moves are separated by a break marker:
\* each bucket is, in program order, the points of each of its moves followed by None.
C17_ZBuckets ==
    (Simulated /\ ~HasMalformedLine(gcode_file))
    => LET prog == gcode_file
       IN /\ DOMAIN segments_by_z = { HeldZ(prog, n) : n \in MoveLines(prog) }
          /\ \A z \in DOMAIN segments_by_z :
                Len(segments_by_z[z]) = SumSizes(prog, MovesAt(prog, z))
          /\ \A n \in MoveLines(prog) :
                LET seq == segments_by_z[HeldZ(prog, n)]
                    off == OffsetIn(prog, n)
                    size == MoveSize(prog[n])
                    st == ZPass(prog, n - 1)
                    c == Coords(prog[n], st.x, st.y, st.z)
                IN /\ seq[off + size] = None
                   /\ \A i \in (off + 1)..(off + size - 1) : seq[i] # None
                   /\ prog[n].cmd \in Rapids \cup Linears =>
                         seq[off + 1] = <<st.x, st.y>> /\ seq[off + 2] = <<c.x, c.y>>

\* a move that changes Z, filed under the Z held before it, behind another move
C17_Witness ==
    /\ Simulated
    /\ ~HasMalformedLine(gcode_file)
    /\ \E n \in MoveLines(gcode_file) :
          /\ TargetZ(gcode_file, n) # HeldZ(gcode_file, n)
          /\ IsXY(gcode_file[n]) \/ HasX(gcode_file[n])
          /\ OffsetIn(gcode_file, n) > 0
          /\ TargetZ(gcode_file, n) \notin DOMAIN segments_by_z

\* the animation path as the second loop collected it, [[0, 0]] when it collected nothing
RawPath(prog) ==
    LET pts == AnimPass(prog, Len(prog)).pts
    IN IF pts = <<>> THEN << <<0, 0>> >> ELSE pts
StartRequested == args.start_x # 0 \/ args.start_y # 0
PostProcessed ==
    LET raw == RawPath(gcode_file)
        d == IF StartRequested
             THEN <<args.start_x - raw[1][1], args.start_y - raw[1][2]>>
             ELSE <<0, 0>>
        last == Len(tool_path_points)
    IN /\ Len(tool_path_points) = Len(raw)
       /\ \A i \in 1..(last - 1) :
             tool_path_points[i] = <<raw[i][1] + d[1], raw[i][2] + d[2]>>
       /\ tool_path_points[last] = <<args.end_x, args.end_y>>
       /\ (StartRequested /\ last >= 2) => tool_path_points[1] = <<args.start_x, args.start_y>>

\* C18: if (start_x, start_y) is not (0,0) every animation point is translated by
\* (start - original first point), otherwise none is; then the last point is replaced
\* by (end_x, end_y). So the last point is the requested end, the first is the
\* requested non-zero start when the path has at least two points, and simulate_gcode
\* does not change the program text.
C18_PostProcessing ==
    /\ [](pc = "done" => PostProcessed)
    /\ [][gcode_file' = gcode_file]_vars

C18_Witness ==
    /\ pc = "done"
    /\ StartRequested
    /\ Len(tool_path_points) >= 3
    /\ RawPath(gcode_file)[1] # <<args.start_x, args.start_y>>
    /\ RawPath(gcode_file)[Len(tool_path_points)] # <<args.end_x, args.end_y>>
    /\ <<args.start_x, args.start_y>> # <<args.end_x, args.end_y>>

IsComment(l) == l.cmd \in {WarningComment, PlainComment}

\* C19 (as claimed): an ARC or CIRCLE of radius zero is converted without a fatal
\* error and its block contains a warning comment line.
C19_ZeroRadiusWarned ==
    \A n \in 1..Len(blocks) :
        (entities[n].type \in {"ARC", "CIRCLE"} /\ entities[n].radius = 0)
        => /\ blocks[n].lines # <<>>
           /\ \E j \in 1..Len(blocks[n].lines) : IsComment(blocks[n].lines[j])

\* the part of C19 that holds: the entity is converted, to the usual block with
\* arc commands of zero radius
C19_ZeroRadiusAccepted ==
    \A n \in 1..Len(blocks) :
        (entities[n].type \in {"ARC", "CIRCLE"} /\ entities[n].radius = 0)
        => /\ SelectArcs(blocks[n].lines) # <<>>
           /\ \A j \in 1..Len(blocks[n].lines) : ~IsComment(blocks[n].lines[j])

\* the lines that differ between two programs of the same length
ChangedLines(a, b) == { n \in 1..Len(a) : a[n] # b[n] }
\* the position of the home move in the footer
HomePosition(prog) == Len(prog) - 1

\* C20 (as claimed): the start/end override pass changes at most two lines of the
\* program and on them only the X and Y literals: the number and order of lines,
\* every mnemonic and every Z, I, J and F word are the same before and after it.
C20_AtMostTwoLines ==
    (Translated /\ Written)
    => /\ SameShape(translated, gcode_file)
       /\ Cardinality(ChangedLines(translated, gcode_file)) <= 2

\* C20 (amended): the pass changes at most two lines before the footer, and with a
\* non-zero offset it also puts the home move of the footer back to 'G00 X0 Y0'; on
\* every changed line only the X and Y literals change: the number and order of
\* lines, every mnemonic and every Z, I, J and F word are the same before and after.
C20_TwoLinesAndHome ==
    (Translated /\ Written)
    => /\ SameShape(translated, gcode_file)
       /\ Cardinality(ChangedLines(translated, gcode_file) \ {HomePosition(gcode_file)}) <= 2
       /\ HomePosition(gcode_file) \in ChangedLines(translated, gcode_file) <=> ~NoOffset
       /\ gcode_file[HomePosition(gcode_file)] = HomeX0Y0

\* an overridden arc line that kept its I and J, with the home move put back as well
C20_Witness ==
    /\ Translated
    /\ Written
    /\ Cardinality(ChangedLines(translated, gcode_file)) = 3
    /\ \E n \in ChangedLines(translated, gcode_file) :
          /\ gcode_file[n].cmd \in CWs
          /\ TokOf(gcode_file[n], "I") = TokOf(translated[n], "I")
          /\ TokOf(gcode_file[n], "I").v # 0

\* executing the program line by line: line n is reached with the tool at height z
\* when the last Z word before line n is z (Z is modal: a line without a Z word
\* leaves the height alone; before the first Z word the height is not known)
ZReachedAt(prog, n, z) ==
    \E m \in 1..(n - 1) :
        /\ HasTok(prog[m], "Z")
        /\ ParseFloat(TokOf(prog[m], "Z")) = z
        /\ \A k \in (m + 1)..(n - 1) : ~HasTok(prog[k], "Z")
\* a line that carries an X or Y word
CarriesXY(line) == HasTok(line, "X") \/ HasTok(line, "Y")
\* the first line of the n-th entity block in the written program
RECURSIVE BlockFirst(_)
BlockFirst(n) == IF n = 1 THEN HeaderLen + 1
                 ELSE BlockFirst(n - 1) + Len(blocks[n - 1].lines)
\* the line after the n-th entity block
BlockEnd(n) == BlockFirst(n) + Len(blocks[n].lines)

\* C21: executing the written program line by line, for any supported entities, any
\* offset and any override: every G00 line with an X or Y word is reached at
\* Z = safe_z, every G01/G02 line with an X or Y word is reached at Z = cut_z, every
\* entity block begins and ends at safe_z, and the program ends at safe_z.
C21_ZSafety ==
    Written
    => /\ \A n \in 1..Len(gcode_file) :
             /\ (gcode_file[n].cmd \in Rapids /\ CarriesXY(gcode_file[n]))
                => ZReachedAt(gcode_file, n, DEFAULT_SAFE_Z)
             /\ (gcode_file[n].cmd \in Linears \cup CWs \cup CCWs /\ CarriesXY(gcode_file[n]))
                => ZReachedAt(gcode_file, n, DEFAULT_CUT_Z)
       /\ \A b \in 1..Len(blocks) :
             blocks[b].lines # <<>>
             => /\ ZReachedAt(gcode_file, BlockFirst(b), DEFAULT_SAFE_Z)
                /\ ZReachedAt(gcode_file, BlockEnd(b), DEFAULT_SAFE_Z)
       /\ ZReachedAt(gcode_file, Len(gcode_file) + 1, DEFAULT_SAFE_Z)

\* a written program of two blocks, shifted and overridden, whose second block has
\* no rapid and starts with the plunge, and which cuts an arc at cut_z
C21_Witness ==
    /\ Written
    /\ Len(blocks) = 2
    /\ blocks[1].lines # <<>>
    /\ blocks[2].lines # <<>>
    /\ gcode_file[BlockFirst(2)].cmd \in Linears
    /\ ~NoOffset
    /\ ~DefaultStartEnd
    /\ \E n \in 1..Len(gcode_file) :
          /\ gcode_file[n].cmd \in CWs
          /\ ZReachedAt(gcode_file, n, DEFAULT_CUT_Z)

\* the entities the arc round trip is claimed for
RoundTripArc(e) ==
    \/ e.type = "CIRCLE"
    \/ e.type = "ARC" /\ e.radius # 0 /\ CcwSweep(e) > 0 /\ CcwSweep(e) < 360
\* the arc lines of an entity block, read from the entity's start point: the rapid
\* puts the interpreter at the start point as it is printed
FromStart(e, lines) == <<RapidXY(StartPoint(e)[1], StartPoint(e)[2])>> \o SelectArcs(lines)
\* the angles the source arc starts at, ends at and sweeps through, in sampling
\* steps; a circle is cut from its leftmost point, at 180 degrees, once around
SourceStart(e) == IF e.type = "ARC" THEN Radians(NormAngle(e.start_angle)) ELSE Pi
SourceEnd(e) == IF e.type = "ARC" THEN Radians(NormAngle(e.end_angle)) ELSE Pi
SourceSweep(e) == IF e.type = "ARC" THEN Radians(CcwSweep(e)) ELSE Turn
\* the center and the radius the first loop computes for arc line n
CenterAt(prog, n) ==
    LET st == ZPass(prog, n - 1)
        c == Coords(prog[n], st.x, st.y, st.z)
    IN <<st.x + c.i, st.y + c.j>>
RadiusAt(prog, n) ==
    LET st == ZPass(prog, n - 1)
        c == Coords(prog[n], st.x, st.y, st.z)
    IN Hypot(c.i, c.j)
\* the signed angle the first loop sweeps through on the arc lines 2..n
RECURSIVE SweptTo(_, _)
SweptTo(prog, n) ==
    IF n < 2 THEN 0
    ELSE SweptTo(prog, n - 1)
         + ZThetasAt(prog, n)[num_points] - ZThetasAt(prog, n)[1]
\* the arc lines of prog trace the arc of e: its center and radius to the printed
\* precision, counter-clockwise from its start angle through its sweep to its end
TracesSource(e, prog) ==
    /\ Len(prog) >= 2
    /\ \A n \in 2..Len(prog) :
          /\ Near(CenterAt(prog, n), e.center)
          /\ Abs(RadiusAt(prog, n) - e.radius) <= TicksPerMilli
          /\ StrictlyIncreasing(ZThetasAt(prog, n))
          /\ n > 2 => (ZThetasAt(prog, n)[1] - ZThetasAt(prog, n - 1)[num_points]) % Turn = 0
    /\ (ZThetasAt(prog, 2)[1] - SourceStart(e)) % Turn = 0
    /\ SweptTo(prog, Len(prog)) = SourceSweep(e)
    /\ (ZThetasAt(prog, Len(prog))[num_points] - SourceEnd(e)) % Turn = 0

\* C22 (as claimed): for every ARC with non-zero radius and 0 < ccw_sweep < 360 and
\* for every CIRCLE, the arc lines of the entity's block, interpreted in order by
\* the Z-grouped pass of simulate_gcode from the entity's start point, reconstruct
\* the entity's center and radius and sweep counter-clockwise from start_angle
\* through exactly ccw_sweep degrees (360 for a circle) to end_angle.
C22_ArcRoundTrip ==
    \A n \in 1..Len(blocks) :
        RoundTripArc(entities[n])
        => TracesSource(entities[n], FromStart(entities[n], blocks[n].lines))

\* an arc line that is read at its own target: the printed start and end of the
\* segment are the same point
Unresolved(prog) == \E n \in 2..Len(prog) : FullCircleAt(prog, n)

\* the part of C22 that holds: the round trip of the arcs and circles whose
\* segments each print two different end points
C22_ResolvedArcRoundTrip ==
    \A n \in 1..Len(blocks) :
        (RoundTripArc(entities[n]) /\ ~Unresolved(FromStart(entities[n], blocks[n].lines)))
        => TracesSource(entities[n], FromStart(entities[n], blocks[n].lines))

\* a resolved arc of more than a half turn, cut in two segments, and a resolved circle
C22_ResolvedWitness ==
    \E n \in 1..Len(blocks) :
        /\ RoundTripArc(entities[n])
        /\ ~Unresolved(FromStart(entities[n], blocks[n].lines))
        /\ entities[n].type = "ARC"
        /\ CcwSweep(entities[n]) = 270
        /\ TracesSource(entities[n], FromStart(entities[n], blocks[n].lines))

=============================================================================
